---- MODULE Spec2Model ----
(***************************************************************************)
(* Process_Scheduler (src/main.cpp): a discrete-time simulator of CPU      *)
(* scheduling policies.  The model follows main()'s loop step by step:     *)
(* read one input line, run the selected policy, account the executed      *)
(* tick, print the record and test the loop condition.                     *)
(***************************************************************************)
EXTENDS Integers, Sequences, FiniteSets, TLC

(***************************************************************************)
(* Bounds of the explored inputs.                                          *)
(***************************************************************************)
MaxCpus  == 2      \* CPU counts 1..MaxCpus
MaxId    == 1      \* process ids 0..MaxId
MaxPrio  == 1      \* priorities 0..MaxPrio
MaxExec  == 3      \* execution times 1..MaxExec
MaxSlice == 2      \* round robin slices 1..MaxSlice
MaxLines == 2      \* non-blank input lines of a run
MaxProcs == 2      \* arrival records of a run
MaxBatch == 2      \* arrival records on one line
MaxTicks == 5      \* records printed in a run on unchecked input

(***************************************************************************)
(* Program constants.                                                      *)
(***************************************************************************)
SLEEP          == -1   \* cpu state of a sleeping CPU
DefaultRrTime  == 1    \* rr_time when arg3 is absent
LastMethod     == 6    \* highest case label of the switch on method
InitialCpuState == 0   \* std::vector<int>(cpu_count) value-initialises to 0

Ids      == 0..MaxId
Methods  == 0..LastMethod

VARIABLES
    method,        \* arg1
    cpu_count,     \* arg2
    rr_time,       \* arg3
    proc_list,     \* std::vector<proc_data>
    storage,       \* TRUE once proc_list owns a heap buffer (a push_back happened)
    cpus_state,    \* std::vector<int>
    time,          \* simulation time
    read,          \* flag for reading input
    pc,            \* position of main(): "read","schedule","update","done","crash","abort"
    out,           \* last line written to stdout
    inputLeft,     \* stdin: arrival records not read yet
    owed,          \* history: per id, admitted execution time minus appearances in records
    held,          \* history: ids of the live processes that held a slot in the last accounted tick
    arrivalOrder,  \* history: per priority, the ids of the live processes in order of arrival
    lastBusy,      \* history: number of records printed up to the last one with an occupied slot
    readBefore,    \* history: the read flag at the start of the current (or last) tick
    printed,       \* history: number of records printed
    plain          \* reference run of round robin: proc_list and cpus_state when the
                   \* cpu states are never sorted

vars == <<method, cpu_count, rr_time, proc_list, storage, cpus_state, time, read, pc, out,
          inputLeft, owed, held, arrivalOrder, lastBusy, readBefore, printed,
          plain>>

(***************************************************************************)
(* Sequence helpers.                                                       *)
(***************************************************************************)
Range(s) == {s[i] : i \in 1..Len(s)}

RemoveAt(s, i) == SubSeq(s, 1, i - 1) \o SubSeq(s, i + 1, Len(s))

IdsOf(pl) == {pl[i].id : i \in 1..Len(pl)}

Min(a, b) == IF a < b THEN a ELSE b

Max(a, b) == IF a > b THEN a ELSE b

(***************************************************************************)
(* unsigned int (32 bits).  A value is held as the integer with the same   *)
(* 32 bits read in two's complement: the value itself below 2^31, the      *)
(* value less 2^32 from 2^31 on, so that 4294967295 is held as -1,         *)
(* 4294967294 as -2.  unsigned_halves gives the upper and the lower 16     *)
(* bits of a value: <<65535, 65535>> for 4294967295.                       *)
(***************************************************************************)
unsigned_halves(x) == <<(x \div 65536) % 65536, x % 65536>>

unsigned_value(h) == (IF h[1] >= 32768 THEN h[1] - 65536 ELSE h[1]) * 65536 + h[2]

\* a < b on unsigned int: values on the same side of 2^31 compare as they
\* are held, otherwise the one below 2^31 is the smaller
unsigned_less(a, b) == IF (a >= 0) = (b >= 0) THEN a < b ELSE a >= 0

\* a - b on unsigned int: 0 - 1 is 4294967295
unsigned_sub(a, b) ==
    IF b >= 0 /\ a >= b
    THEN a - b
    ELSE LET ha == unsigned_halves(a)
             hb == unsigned_halves(b)
             lo == ha[2] - hb[2]
             hi == ha[1] - hb[1] - (IF lo < 0 THEN 1 ELSE 0)
         IN  unsigned_value(<<hi % 65536, lo % 65536>>)

\* a % s on unsigned int, for 0 < s < 32768
unsigned_mod(a, s) ==
    IF a >= 0
    THEN a % s
    ELSE LET ha == unsigned_halves(a)
         IN  ((ha[1] % s) * (65536 % s) + (ha[2] % s)) % s

(***************************************************************************)
(* proc_data comparators.                                                  *)
(***************************************************************************)
compare_exec_time(pd1, pd2) == unsigned_less(pd1.exec_time, pd2.exec_time)

compare_priority(pd1, pd2) == pd1.priority < pd2.priority

compare_remaining_time(pd1, pd2) == unsigned_less(pd1.remaining_time, pd2.remaining_time)

\* the lambda update_cpus_state sorts the cpu states with
cpu_less(i, j) == IF i >= 0 /\ j >= 0 THEN i < j ELSE i > j

\* the comparator argument of std::stable_sort, by name
less(cmp, a, b) ==
    CASE cmp = "compare_exec_time"      -> compare_exec_time(a, b)
      [] cmp = "compare_priority"       -> compare_priority(a, b)
      [] cmp = "compare_remaining_time" -> compare_remaining_time(a, b)
      [] cmp = "cpu_less"               -> cpu_less(a, b)

(***************************************************************************)
(* std::stable_sort with the comparator named cmp: elements are inserted   *)
(* one by one, each before the first already placed element it is          *)
(* strictly less than.                                                     *)
(***************************************************************************)
stable_sort(s, cmp) ==
    LET ins[i \in 0..Len(s)] ==
            IF i = 0 THEN <<>>
            ELSE LET prev == ins[i - 1]
                     x    == s[i]
                     pos  == IF \E j \in 1..Len(prev) : less(cmp, x, prev[j])
                             THEN CHOOSE j \in 1..Len(prev) :
                                      /\ less(cmp, x, prev[j])
                                      /\ \A k \in 1..(j - 1) : ~less(cmp, x, prev[k])
                             ELSE Len(prev) + 1
                 IN  SubSeq(prev, 1, pos - 1) \o <<x>> \o SubSeq(prev, pos, Len(prev))
    IN  ins[Len(s)]

\* operator>> for proc_data: three fields are read, remaining_time := exec_time
ReadProc(t) ==
    [id |-> t.id, priority |-> t.priority, exec_time |-> t.exec_time,
     remaining_time |-> t.exec_time]

(***************************************************************************)
(* update_cpus_state: slot fill, then the sort of the slots.               *)
(***************************************************************************)
\* mutant: the last process of a short list is left without a slot
slot_fill_off_by_one(pl, cs) ==
    [c \in 1..Len(cs) |-> IF c >= Len(pl) THEN SLEEP ELSE pl[c].id]

slot_fill(pl, cs) ==
    [c \in 1..Len(cs) |-> IF c > Len(pl) THEN SLEEP ELSE pl[c].id]

\* mutant: the cpu states stay in the order the slots were filled in
update_cpus_state_unsorted(pl, cs) == slot_fill(pl, cs)

update_cpus_state(pl, cs) == stable_sort(slot_fill(pl, cs), "cpu_less")

\* mutant: one sleeping CPU is taken for all
some_cpu_sleeping(cs) == \E c \in 1..Len(cs) : cs[c] = SLEEP

all_cpus_sleeping(cs) == ~(\E c \in 1..Len(cs) : cs[c] # SLEEP)

(***************************************************************************)
(* The policies.  Each yields the reordered list and the new cpu states.   *)
(***************************************************************************)
\* mutant: the list is sorted by execution time first
fcfs_shortest_first(pl, cs) ==
    LET sorted == stable_sort(pl, "compare_exec_time")
    IN  [proc_list |-> sorted, cpus_state |-> update_cpus_state(sorted, cs)]

fcfs(pl, cs) == [proc_list |-> pl, cpus_state |-> update_cpus_state(pl, cs)]

\* the loop shared by sjf and prio_fcfs_no_preemption: the offset of proc_it
\* from begin() after the walk over the cpu states
\* mutant: the executing processes are not skipped
skip_nothing(pl, cs) == 0

skip_executing(pl, cs) ==
    LET it[c \in 0..Len(cs)] ==
            IF c = 0 THEN [pos |-> 0, brk |-> FALSE]
            ELSE LET p == it[c - 1]
                 IN  IF p.brk THEN p
                     ELSE IF p.pos = Len(pl) \/ cs[c] = SLEEP
                          THEN [pos |-> p.pos, brk |-> TRUE]
                          ELSE [pos |-> p.pos + Cardinality({j \in 1..Len(pl) : pl[j].id = cs[c]}),
                                brk |-> FALSE]
    IN  it[Len(cs)].pos

sort_from(pl, k, cmp) ==
    SubSeq(pl, 1, k) \o stable_sort(SubSeq(pl, k + 1, Len(pl)), cmp)

sjf(pl, cs) ==
    LET sorted == sort_from(pl, skip_executing(pl, cs), "compare_exec_time")
    IN  [proc_list |-> sorted, cpus_state |-> update_cpus_state(sorted, cs)]

\* mutant: the executing processes are exempt from the sort (no preemption)
srtf_without_preemption(pl, cs) ==
    LET sorted == sort_from(pl, skip_executing(pl, cs), "compare_remaining_time")
    IN  [proc_list |-> sorted, cpus_state |-> update_cpus_state(sorted, cs)]

srtf(pl, cs) ==
    LET sorted == stable_sort(pl, "compare_remaining_time")
    IN  [proc_list |-> sorted, cpus_state |-> update_cpus_state(sorted, cs)]

\* mutant: a sort that is not stable (equal priorities end up reversed)
prio_fcfs_unstable(pl, cs) ==
    LET reversed == [i \in 1..Len(pl) |-> pl[Len(pl) + 1 - i]]
        sorted == stable_sort(reversed, "compare_priority")
    IN  [proc_list |-> sorted, cpus_state |-> update_cpus_state(sorted, cs)]

prio_fcfs(pl, cs) ==
    LET sorted == stable_sort(pl, "compare_priority")
    IN  [proc_list |-> sorted, cpus_state |-> update_cpus_state(sorted, cs)]

\* mutant: the two sorts are applied in the opposite order
prio_srtf_swapped(pl, cs) ==
    LET sorted == stable_sort(stable_sort(pl, "compare_priority"), "compare_remaining_time")
    IN  [proc_list |-> sorted, cpus_state |-> update_cpus_state(sorted, cs)]

prio_srtf(pl, cs) ==
    LET sorted == stable_sort(stable_sort(pl, "compare_remaining_time"), "compare_priority")
    IN  [proc_list |-> sorted, cpus_state |-> update_cpus_state(sorted, cs)]

prio_fcfs_no_preemption(pl, cs) ==
    LET sorted == sort_from(pl, skip_executing(pl, cs), "compare_priority")
    IN  [proc_list |-> sorted, cpus_state |-> update_cpus_state(sorted, cs)]

\* rr: the position the scan "while(cpu_state != proc_it->id && proc_it != end)"
\* stops at; Len(pl) + 1 stands for end()
rr_scan(pl, id) ==
    IF \E j \in 1..Len(pl) : pl[j].id = id
    THEN CHOOSE j \in 1..Len(pl) : pl[j].id = id /\ \A k \in 1..(j - 1) : pl[k].id # id
    ELSE Len(pl) + 1

\* time slice test of rr on the process the scan found
\* mutant: a process that has not executed yet counts as at the end of a slice
rr_slice_ended_at_zero(pd, slice) ==
    LET proc_executed_time == unsigned_sub(pd.exec_time, pd.remaining_time)
    IN  unsigned_mod(proc_executed_time, slice) = 0

\* mutant: every tick of execution ends a slice
rr_slice_ended_every_tick(pd, slice) ==
    LET proc_executed_time == unsigned_sub(pd.exec_time, pd.remaining_time)
    IN  proc_executed_time # 0

rr_slice_ended(pd, slice) ==
    LET proc_executed_time == unsigned_sub(pd.exec_time, pd.remaining_time)
    IN  proc_executed_time # 0 /\ unsigned_mod(proc_executed_time, slice) = 0

\* the list after the loop of rr over the cpu states
rr_rotate(pl, cs, slice) ==
    LET st[c \in 0..Len(cs)] ==
            IF c = 0 THEN [pl |-> pl, brk |-> FALSE]
            ELSE LET p == st[c - 1]
                     j == rr_scan(p.pl, cs[c])
                 IN  IF p.brk THEN p
                     ELSE IF cs[c] = SLEEP THEN [pl |-> p.pl, brk |-> TRUE]
                     ELSE IF j = Len(p.pl) + 1 THEN p
                     ELSE IF rr_slice_ended(p.pl[j], slice)
                          THEN [pl |-> Append(RemoveAt(p.pl, j), p.pl[j]), brk |-> FALSE]
                          ELSE p
    IN  st[Len(cs)].pl

rr(pl, cs, slice) ==
    LET rotated == rr_rotate(pl, cs, slice)
    IN  [proc_list |-> rotated, cpus_state |-> update_cpus_state(rotated, cs)]

\* rr dereferences proc_it before comparing it with end(): TRUE when the scan
\* of some cpu state reaches end() while proc_list has no buffer, i.e. the
\* read goes through a null pointer
rr_reads_null(pl, cs, hasStorage) ==
    /\ ~hasStorage
    /\ \E c \in 1..Len(cs) :
           /\ \A b \in 1..c : cs[b] # SLEEP
           /\ rr_scan(pl, cs[c]) = Len(pl) + 1

(***************************************************************************)
(* "update proc_list" of main(): every executing process loses one tick of *)
(* remaining time (an unsigned int) and is erased when none is left.       *)
(***************************************************************************)
account(pl, cs) ==
    LET st[c \in 0..Len(cs)] ==
            IF c = 0 THEN pl
            ELSE LET p == st[c - 1]
                 IN  IF cs[c] = SLEEP THEN p
                     ELSE LET j == CHOOSE j \in 1..Len(p) :
                                       p[j].id = cs[c] /\ \A k \in 1..(j - 1) : p[k].id # cs[c]
                          IN  IF unsigned_sub(p[j].remaining_time, 1) = 0
                              THEN RemoveAt(p, j)
                              ELSE [p EXCEPT ![j].remaining_time = unsigned_sub(@, 1)]
    IN  st[Len(cs)]

(***************************************************************************)
(* Input.  stdin holds at most MaxLines non-blank lines, one per tick,     *)
(* carrying inputLeft arrival records in all, then a blank line; what a    *)
(* line holds is chosen when it is read.  Ids are unique among the live    *)
(* processes, execution times are positive, and a line's timestamp is the  *)
(* current tick.  The policies 0..3 never read a priority, so their        *)
(* inputs carry priority 0.                                                *)
(***************************************************************************)
PrioritiesOf(m) == IF m \in {4, 5, 6} THEN 0..MaxPrio ELSE {0}

Tuples(m) == [priority : PrioritiesOf(m), exec_time : 1..MaxExec]

\* the lines of n records: distinct ids not in use, priority and time from T
BatchesOf(n, live, T) ==
    LET fresh == {s \in [1..n -> Ids \ live] : \A i, j \in 1..n : i # j => s[i] # s[j]}
    IN  {[i \in 1..n |-> [id |-> s[i], priority |-> t[i].priority, exec_time |-> t[i].exec_time]] :
             s \in fresh, t \in [1..n -> T]}

Batches(n, live, m) == BatchesOf(n, live, Tuples(m))

Timestamps(t) == {t}

(***************************************************************************)
(* Unchecked input: what the program reads without complaint although the  *)
(* input contract excludes it, an execution time of 0 and a timestamp      *)
(* that is not the current tick.                                           *)
(***************************************************************************)
UncheckedTuples(m) == [priority : PrioritiesOf(m), exec_time : 0..MaxExec]

UncheckedTimestamps == 0..MaxLines

Init ==
    /\ method \in 0..(LastMethod + 1)
    /\ cpu_count \in 1..MaxCpus
    /\ rr_time \in (IF method = 3 THEN 1..MaxSlice ELSE {DefaultRrTime})
    /\ proc_list = <<>>
    /\ storage = FALSE
    /\ cpus_state = [c \in 1..cpu_count |-> InitialCpuState]
    /\ time = 0
    /\ read = TRUE
    /\ pc = "read"
    /\ out = <<>>
    /\ inputLeft \in 0..Min(Min(MaxProcs, MaxId + 1), MaxLines * MaxBatch)
    /\ owed = [i \in Ids |-> 0]
    /\ held = {}
    /\ arrivalOrder = [pr \in 0..MaxPrio |-> <<>>]
    /\ lastBusy = 0
    /\ readBefore = TRUE
    /\ printed = 0
    /\ plain = [proc_list |-> <<>>, cpus_state |-> [c \in 1..cpu_count |-> InitialCpuState]]

config == <<method, cpu_count, rr_time>>

\* the policies whose properties speak of the order of arrival
TracksArrival(m) == m \in {0, 4}

IdSeq(s) == [i \in 1..Len(s) |-> s[i].id]

\* the policy whose loop walks the cpu states in their order, so that the
\* reference run is followed next to the run
KeepsReference(m) == m = 3

(***************************************************************************)
(* main(), "read input": a non-blank line sets time and appends its        *)
(* processes to proc_list.                                                 *)
(***************************************************************************)
\* the line with timestamp ts and the records b is taken in
Admit(ts, b) ==
    /\ time' = ts
    /\ proc_list' = proc_list \o [i \in 1..Len(b) |-> ReadProc(b[i])]
    /\ plain' = IF KeepsReference(method)
                THEN [plain EXCEPT !.proc_list = @ \o [i \in 1..Len(b) |-> ReadProc(b[i])]]
                ELSE plain
    /\ storage' = (storage \/ Len(b) > 0)
    /\ owed' = [i \in Ids |->
                   IF \E k \in 1..Len(b) : b[k].id = i
                   THEN owed[i] + b[CHOOSE k \in 1..Len(b) : b[k].id = i].exec_time
                   ELSE owed[i]]
    /\ arrivalOrder' =
           IF TracksArrival(method)
           THEN [pr \in 0..MaxPrio |->
                    arrivalOrder[pr] \o IdSeq(SelectSeq(b, LAMBDA t : t.priority = pr))]
           ELSE arrivalOrder
    /\ inputLeft' = inputLeft - Len(b)
    /\ pc' = "schedule"
    /\ UNCHANGED <<config, cpus_state, read, out, held, lastBusy, readBefore, printed>>

ReadLine ==
    /\ pc = "read"
    /\ printed < MaxLines
    /\ \E n \in 0..Min(MaxBatch, inputLeft) :
         /\ inputLeft - n <= (MaxLines - printed - 1) * MaxBatch
         /\ \E ts \in Timestamps(time), b \in Batches(n, IdsOf(proc_list), method) :
              Admit(ts, b)

\* the records of the line "0 1 0 3 2 0 2" of the worked round robin example
RrExampleLine ==
    << [id |-> 1, priority |-> 0, exec_time |-> 3],
       [id |-> 2, priority |-> 0, exec_time |-> 2] >>

\* that line read as the first line of the input, which it is the whole of
ReadRrExampleLine ==
    /\ pc = "read"
    /\ printed = 0 /\ time = 0 /\ proc_list = <<>>
    /\ inputLeft = Len(RrExampleLine)
    /\ Admit(0, RrExampleLine)

\* a non-blank line of unchecked input
ReadLineUnchecked ==
    /\ pc = "read"
    /\ printed < MaxLines
    /\ \E n \in 0..Min(MaxBatch, inputLeft) :
         /\ inputLeft - n <= (MaxLines - printed - 1) * MaxBatch
         /\ \E ts \in UncheckedTimestamps,
               b \in BatchesOf(n, IdsOf(proc_list), UncheckedTuples(method)) :
              Admit(ts, b)

\* main(), "read input": a blank line (or end of file) clears the read flag
ReadBlank ==
    /\ pc = "read"
    /\ inputLeft = 0
    /\ read' = FALSE
    /\ pc' = "schedule"
    /\ UNCHANGED <<config, proc_list, storage, cpus_state, time, out, inputLeft,
                   owed, held, arrivalOrder, lastBusy, readBefore, printed,
                   plain>>

(***************************************************************************)
(* main(), "run given method": the switch on method.                       *)
(***************************************************************************)
\* the policy function the case label m calls
policy(m, pl, cs, slice) ==
    CASE m = 0 -> fcfs(pl, cs)
      [] m = 1 -> sjf(pl, cs)
      [] m = 2 -> srtf(pl, cs)
      [] m = 3 -> rr(pl, cs, slice)
      [] m = 4 -> prio_fcfs(pl, cs)
      [] m = 5 -> prio_srtf(pl, cs)
      [] m = 6 -> prio_fcfs_no_preemption(pl, cs)

\* the same scheduling step when update_cpus_state stops after the slot fill
\* and leaves the cpu states unsorted
policy_without_sort(m, pl, cs, slice) ==
    LET reordered == policy(m, pl, cs, slice).proc_list
    IN  [proc_list |-> reordered, cpus_state |-> slot_fill(reordered, cs)]

Scheduled(r) ==
    /\ proc_list' = r.proc_list
    /\ cpus_state' = r.cpus_state
    /\ plain' = IF KeepsReference(method)
                THEN policy_without_sort(method, plain.proc_list, plain.cpus_state, rr_time)
                ELSE plain
    /\ pc' = "update"
    /\ UNCHANGED <<config, storage, time, read, out, inputLeft,
                   owed, held, arrivalOrder, lastBusy, readBefore, printed>>

CallFcfs == pc = "schedule" /\ method = 0 /\ Scheduled(fcfs(proc_list, cpus_state))

CallSjf == pc = "schedule" /\ method = 1 /\ Scheduled(sjf(proc_list, cpus_state))

CallSrtf == pc = "schedule" /\ method = 2 /\ Scheduled(srtf(proc_list, cpus_state))

CallRr ==
    /\ pc = "schedule" /\ method = 3
    /\ Scheduled(rr(proc_list, cpus_state, rr_time))

\* rr reading proc_it->id through the null begin() of a never filled vector
CallRrNullRead ==
    /\ pc = "schedule" /\ method = 3
    /\ rr_reads_null(proc_list, cpus_state, storage)
    /\ pc' = "crash"
    /\ UNCHANGED <<config, proc_list, storage, cpus_state, time, read, out, inputLeft,
                   owed, held, arrivalOrder, lastBusy, readBefore, printed,
                   plain>>

CallPrioFcfs == pc = "schedule" /\ method = 4 /\ Scheduled(prio_fcfs(proc_list, cpus_state))

CallPrioSrtf == pc = "schedule" /\ method = 5 /\ Scheduled(prio_srtf(proc_list, cpus_state))

CallPrioFcfsNoPreemption ==
    /\ pc = "schedule" /\ method = 6
    /\ Scheduled(prio_fcfs_no_preemption(proc_list, cpus_state))

\* mutant: the default label leaves main() with a normal return
InvalidMethodReturns ==
    /\ pc = "schedule" /\ method \notin Methods
    /\ pc' = "done"
    /\ UNCHANGED <<config, proc_list, storage, cpus_state, time, read, out, inputLeft,
                   owed, held, arrivalOrder, lastBusy, readBefore, printed,
                   plain>>

\* default label: throw std::invalid_argument, which nothing catches
InvalidMethod ==
    /\ pc = "schedule" /\ method \notin Methods
    /\ pc' = "abort"
    /\ UNCHANGED <<config, proc_list, storage, cpus_state, time, read, out, inputLeft,
                   owed, held, arrivalOrder, lastBusy, readBefore, printed,
                   plain>>

(***************************************************************************)
(* main(), "update proc_list", "print output", time++ and the test of the  *)
(* while loop: the rest of the loop body after the scheduling step.        *)
(***************************************************************************)
UpdateAndPrint ==
    /\ pc = "update"
    /\ proc_list' = account(proc_list, cpus_state)
    /\ plain' = IF KeepsReference(method)
                THEN [plain EXCEPT !.proc_list = account(@, plain.cpus_state)]
                ELSE plain
    /\ held' = Range(cpus_state) \cap IdsOf(proc_list')
    /\ arrivalOrder' = [pr \in 0..MaxPrio |->
                            SelectSeq(arrivalOrder[pr], LAMBDA i : i \in IdsOf(proc_list'))]
    /\ out' = <<time>> \o cpus_state
    /\ time' = time + 1
    /\ printed' = printed + 1
    /\ owed' = [i \in Ids |-> owed[i] - Cardinality({c \in 1..Len(cpus_state) : cpus_state[c] = i})]
    /\ lastBusy' = IF \E c \in 1..Len(cpus_state) : cpus_state[c] # SLEEP
                   THEN printed + 1 ELSE lastBusy
    /\ pc' = IF read THEN "read"
             ELSE IF ~all_cpus_sleeping(cpus_state) THEN "schedule"
             ELSE "done"
    /\ readBefore' = IF pc' = "done" THEN readBefore ELSE read
    /\ UNCHANGED <<config, storage, cpus_state, read, inputLeft>>

\* the same step while fewer than MaxTicks records have been printed
UpdateAndPrintBounded == printed < MaxTicks /\ UpdateAndPrint

Next ==
    \/ ReadLine
    \/ ReadBlank
    \/ CallFcfs
    \/ CallSjf
    \/ CallSrtf
    \/ CallRr
    \/ CallRrNullRead
    \/ CallPrioFcfs
    \/ CallPrioSrtf
    \/ CallPrioFcfsNoPreemption
    \/ InvalidMethod
    \/ UpdateAndPrint

Spec == Init /\ [][Next]_vars

(***************************************************************************)
(* The runs of the program under one policy, or under the two policies     *)
(* that do not preempt.                                                    *)
(***************************************************************************)
InitNonPreemptive == Init /\ method \in {1, 6}

NextNonPreemptive ==
    \/ ReadLine
    \/ ReadBlank
    \/ CallSjf
    \/ CallPrioFcfsNoPreemption
    \/ UpdateAndPrint

SpecNonPreemptive == InitNonPreemptive /\ [][NextNonPreemptive]_vars

InitSrtf == Init /\ method = 2

NextSrtf ==
    \/ ReadLine
    \/ ReadBlank
    \/ CallSrtf
    \/ UpdateAndPrint

SpecSrtf == InitSrtf /\ [][NextSrtf]_vars

InitRr == Init /\ method = 3

NextRr ==
    \/ ReadLine
    \/ ReadRrExampleLine
    \/ ReadBlank
    \/ CallRr
    \/ CallRrNullRead
    \/ UpdateAndPrint

SpecRr == InitRr /\ [][NextRr]_vars

InitPrioFcfs == Init /\ method = 4

NextPrioFcfs ==
    \/ ReadLine
    \/ ReadBlank
    \/ CallPrioFcfs
    \/ UpdateAndPrint

SpecPrioFcfs == InitPrioFcfs /\ [][NextPrioFcfs]_vars

\* the runs of the program under FCFS
InitFcfs == Init /\ method = 0

NextFcfs ==
    \/ ReadLine
    \/ ReadBlank
    \/ CallFcfs
    \/ UpdateAndPrint

SpecFcfs == InitFcfs /\ [][NextFcfs]_vars

InitPrioSrtf == Init /\ method = 5

NextPrioSrtf ==
    \/ ReadLine
    \/ ReadBlank
    \/ CallPrioSrtf
    \/ UpdateAndPrint

SpecPrioSrtf == InitPrioSrtf /\ [][NextPrioSrtf]_vars

(***************************************************************************)
(* The runs of the program on unchecked input, under the seven policies,   *)
(* followed for MaxTicks records.                                          *)
(***************************************************************************)
InitUnchecked == Init /\ method \in Methods

NextUnchecked ==
    \/ ReadLineUnchecked
    \/ ReadBlank
    \/ CallFcfs
    \/ CallSjf
    \/ CallSrtf
    \/ CallRr
    \/ CallRrNullRead
    \/ CallPrioFcfs
    \/ CallPrioSrtf
    \/ CallPrioFcfsNoPreemption
    \/ UpdateAndPrintBounded

SpecUnchecked == InitUnchecked /\ [][NextUnchecked]_vars

TypeOK ==
    /\ pc \in {"read", "schedule", "update", "done", "crash", "abort"}
    /\ Len(cpus_state) = cpu_count
    /\ read \in BOOLEAN

(***************************************************************************)
(* Notions shared by the properties.                                       *)
(***************************************************************************)
\* the scheduling step of the current tick is done, its accounting is not
AfterScheduling == pc = "update"

HasSlot(i) == i \in Range(cpus_state)

\* the live process with id i (ids are unique among the live processes)
Proc(i) == proc_list[CHOOSE j \in 1..Len(proc_list) : proc_list[j].id = i]

Live == IdsOf(proc_list)

Waiting == {i \in Live : ~HasSlot(i)}

Running == {i \in Live : HasSlot(i)}

Ended == pc \in {"done", "crash"}

(***************************************************************************)
(* C1  Conservation: when a run under one of the seven policies has ended, *)
(* every arrival record of the input was admitted and every id appears in  *)
(* exactly as many records as the execution time admitted for it; at no    *)
(* moment has an id appeared in more records than that.                    *)
(***************************************************************************)
Conservation ==
    method \in Methods =>
        /\ \A i \in Ids : owed[i] >= 0
        /\ Ended => (inputLeft = 0 /\ \A i \in Ids : owed[i] = 0)

(***************************************************************************)
(* C2  Termination: under each of the seven policies the run reaches DONE. *)
(* A run is finite (a tick either reads one of the finitely many lines or  *)
(* executes a live process for one of its remaining ticks), so it reaches  *)
(* DONE exactly when the state it stops in is DONE.                        *)
(***************************************************************************)
InLoop == pc \in {"read", "schedule", "update"}

Termination == (method \in Methods /\ ~InLoop) => pc = "done"

(***************************************************************************)
(* C3  Tick count at DONE, as claimed: when the loop reaches DONE the      *)
(* number of ticks executed is the number of ticks up to the one in which  *)
(* the last process completed, so the last record printed is a record of   *)
(* that tick.                                                              *)
(***************************************************************************)
Busy(cs) == \E c \in 1..Len(cs) : cs[c] # SLEEP

NoTickAfterLastCompletion ==
    pc = "done" => (printed = lastBusy /\ Busy(Tail(out)))

(***************************************************************************)
(* C3  amended: the loop reaches DONE right after the first tick that      *)
(* prints a record with every slot idle while the input is exhausted: the  *)
(* last tick executed either follows the tick of the last completion       *)
(* immediately or is the tick that read the blank line, its record has     *)
(* every slot idle, and no step follows DONE.                              *)
(***************************************************************************)
OneIdleTickBeforeDone ==
    pc = "done" =>
        /\ ~read
        /\ ~Busy(Tail(out))
        /\ printed > lastBusy
        /\ (printed = lastBusy + 1 \/ readBefore)
        /\ ~ENABLED Next

\* a run in which processes still executed after the blank line was read
\* has reached DONE, one idle tick after the last completion
OneIdleTickBeforeDoneWitness ==
    /\ pc = "done"
    /\ ~readBefore
    /\ lastBusy > 1
    /\ printed = lastBusy + 1

(***************************************************************************)
(* C4  Non-preemption: under SJF and non-preemptive Priority-FCFS a live   *)
(* process that held a slot in the previous tick holds a slot after the    *)
(* scheduling step of this tick.                                           *)
(***************************************************************************)
NonPreemption ==
    (AfterScheduling /\ method \in {1, 6}) => held \subseteq Range(cpus_state)

\* a running process kept its slot although a process with a shorter
\* execution time has arrived and waits
NonPreemptionWitness ==
    /\ AfterScheduling /\ method = 1
    /\ \E h \in held, w \in Waiting :
          /\ Proc(w).exec_time < Proc(h).exec_time
          /\ Proc(w).remaining_time = Proc(w).exec_time
          /\ Proc(h).remaining_time < Proc(h).exec_time

(***************************************************************************)
(* C5  Slot fill is work-conserving: after the scheduling step, with L     *)
(* live processes and N CPUs, exactly min(N, L) slots are occupied, each   *)
(* of the first min(N, L) processes of the list is in exactly one slot,    *)
(* the other slots hold -1, and no slot is idle while a process waits.     *)
(***************************************************************************)
SlotFillWorkConserving ==
    AfterScheduling =>
        LET k == Min(cpu_count, Len(proc_list))
            Slots == 1..Len(cpus_state)
        IN  /\ Len(cpus_state) = cpu_count
            /\ Cardinality({c \in Slots : cpus_state[c] # SLEEP}) = k
            /\ \A j \in 1..k :
                   Cardinality({c \in Slots : cpus_state[c] = proc_list[j].id}) = 1
            /\ Cardinality({c \in Slots : cpus_state[c] = SLEEP}) = cpu_count - k
            /\ (\E c \in Slots : cpus_state[c] = SLEEP) => Waiting = {}

\* there are more live processes than CPUs: every slot is occupied and a
\* process waits
SlotFillWorkConservingWitness ==
    /\ AfterScheduling
    /\ Len(proc_list) > cpu_count
    /\ Cardinality(Running) = cpu_count
    /\ Waiting # {}

(***************************************************************************)
(* C6  SJF selection: under SJF, at every tick including the first, the    *)
(* processes the policy exempts from the sort are exactly the live         *)
(* processes that held a slot in the previous tick, and a process given a  *)
(* slot without having held one in the previous tick has an execution time *)
(* no longer than that of any process left waiting.                        *)
(***************************************************************************)
SjfSelection ==
    method = 1 =>
        /\ (pc = "schedule") =>
               IdsOf(SubSeq(proc_list, 1, skip_executing(proc_list, cpus_state))) = held
        /\ AfterScheduling =>
               \A p \in Running \ held, q \in Waiting :
                   Proc(p).exec_time <= Proc(q).exec_time

(***************************************************************************)
(* C7  SRTF preemption: under SRTF, after the scheduling step no waiting   *)
(* process has a strictly smaller remaining time than a process holding a  *)
(* slot (this includes the processes that arrived in this very tick), and  *)
(* the remaining time of a live process changes only in the accounting of  *)
(* a tick in which it holds a slot, so a preempted process resumes with    *)
(* the remaining time it was preempted with.                               *)
(***************************************************************************)
RemainingOf(pl, i) == pl[CHOOSE j \in 1..Len(pl) : pl[j].id = i].remaining_time

SrtfShortestRun ==
    (AfterScheduling /\ method = 2) =>
        \A p \in Running, q \in Waiting :
            ~(Proc(q).remaining_time < Proc(p).remaining_time)

SrtfRemainingKept ==
    method = 2 =>
        \A i \in IdsOf(proc_list) \cap IdsOf(proc_list') :
            \/ RemainingOf(proc_list', i) = RemainingOf(proc_list, i)
            \/ /\ pc = "update" /\ HasSlot(i)
               /\ RemainingOf(proc_list', i) = RemainingOf(proc_list, i) - 1

SrtfPreemption == []SrtfShortestRun /\ [][SrtfRemainingKept]_vars

\* a process that has executed before and did not hold a slot in the
\* previous tick (it was preempted) holds a slot again
SrtfPreemptionWitness ==
    /\ AfterScheduling /\ method = 2
    /\ \E p \in Running \ held :
          /\ Proc(p).remaining_time < Proc(p).exec_time
          /\ Proc(p).remaining_time > 0

(***************************************************************************)
(* C8  Preemptive Priority-FCFS: after the scheduling step no waiting      *)
(* process has a strictly lower priority number than a process holding a   *)
(* slot, and among processes of equal priority none waits while one that   *)
(* arrived after it holds a slot.                                          *)
(***************************************************************************)
ArrivedBefore(i, j) ==
    \E pr \in 0..MaxPrio :
        \E a, b \in 1..Len(arrivalOrder[pr]) :
            a < b /\ arrivalOrder[pr][a] = i /\ arrivalOrder[pr][b] = j

PrioFcfsOrder ==
    (AfterScheduling /\ method = 4) =>
        \A p \in Running, q \in Waiting :
            /\ ~(Proc(q).priority < Proc(p).priority)
            /\ ~(Proc(q).priority = Proc(p).priority /\ ArrivedBefore(q, p))

\* a process of higher precedence that has not executed yet holds the slot
\* of a process that ran in the previous tick
PrioFcfsOrderWitness ==
    /\ AfterScheduling /\ method = 4
    /\ \E p \in Running \ held, q \in held \cap Waiting :
          /\ Proc(p).priority < Proc(q).priority
          /\ Proc(p).remaining_time = Proc(p).exec_time

(***************************************************************************)
(* C9  Priority-SRTF: after the scheduling step the list is ordered by     *)
(* priority ascending and, within equal priority, by remaining time        *)
(* ascending; no waiting process has a strictly lower priority number      *)
(* than a slot holder, nor the same priority and a strictly smaller        *)
(* remaining time.                                                         *)
(***************************************************************************)
PrioSrtfOrder ==
    (AfterScheduling /\ method = 5) =>
        /\ \A a, b \in 1..Len(proc_list) :
               a < b =>
                  \/ proc_list[a].priority < proc_list[b].priority
                  \/ /\ proc_list[a].priority = proc_list[b].priority
                     /\ proc_list[a].remaining_time <= proc_list[b].remaining_time
        /\ \A p \in Running, q \in Waiting :
               /\ ~(Proc(q).priority < Proc(p).priority)
               /\ ~(/\ Proc(q).priority = Proc(p).priority
                    /\ Proc(q).remaining_time < Proc(p).remaining_time)

\* priority decides before remaining time: a process of lower precedence
\* waits although its remaining time is the smaller one
PrioSrtfOrderWitness ==
    /\ AfterScheduling /\ method = 5
    /\ \E p \in Running, r \in Waiting :
          /\ Proc(r).priority > Proc(p).priority
          /\ Proc(r).remaining_time < Proc(p).remaining_time

(***************************************************************************)
(* C10  Round-robin rotation rule: the scheduling step of RR moves to the  *)
(* back of the list exactly the live processes that held a slot in the     *)
(* previous tick and whose executed time is a positive multiple of the     *)
(* slice; the others keep their relative order in front of them.  With     *)
(* one CPU, slice 2 and the processes 1 (exec 3) and 2 (exec 2) arriving   *)
(* at tick 0 as the whole input, the ticks 0..4 print 1, 1, 2, 2, 1.       *)
(***************************************************************************)
SliceDone(pd) ==
    /\ pd.exec_time - pd.remaining_time > 0
    /\ (pd.exec_time - pd.remaining_time) % rr_time = 0

RrRotationStep ==
    (pc = "schedule" /\ method = 3 /\ pc' = "update") =>
        LET moved == {i \in held : SliceDone(Proc(i))}
            kept  == SelectSeq(proc_list, LAMBDA pd : pd.id \notin moved)
        IN  /\ Len(proc_list') = Len(proc_list)
            /\ SubSeq(proc_list', 1, Len(kept)) = kept
            /\ Range(SubSeq(proc_list', Len(kept) + 1, Len(proc_list'))) =
                   {Proc(i) : i \in moved}

RrExampleInput ==
    /\ method = 3 /\ cpu_count = 1 /\ rr_time = 2
    /\ pc = "schedule" /\ time = 0
    /\ proc_list = [i \in 1..Len(RrExampleLine) |-> ReadProc(RrExampleLine[i])]
    /\ inputLeft = 0

RrExampleOutput == <<1, 1, 2, 2, 1>>

RrExampleRecords ==
    \A k \in 0..4 : (printed = k + 1) => out = <<k, RrExampleOutput[k + 1]>>

RrRotation == [][RrRotationStep]_vars /\ [](RrExampleInput => []RrExampleRecords)

\* tick 2 of the example: process 1 has used a slice of two ticks and was
\* moved behind process 2, which has not executed yet and gets the slot
RrRotationWitness ==
    /\ AfterScheduling /\ method = 3 /\ rr_time = 2 /\ cpu_count = 1
    /\ printed = 2 /\ out = <<1, 1>>
    /\ IdSeq(proc_list) = <<2, 1>>
    /\ cpus_state = <<2>>
    /\ held = {proc_list[2].id}
    /\ SliceDone(proc_list[2])
    /\ proc_list[1].remaining_time = proc_list[1].exec_time

(***************************************************************************)
(* C11  Live-process invariant: at every tick boundary (after admission    *)
(* and after the accounting of a tick) every process of proc_list has      *)
(* 0 < remaining_time <= exec_time, whatever arrival record it was         *)
(* admitted from; a process whose remaining time reaches 0 is erased in    *)
(* that tick, so the cpu states of a tick name only live processes.        *)
(***************************************************************************)
TickBoundary == pc \in {"read", "schedule", "done"}

LiveInvariant ==
    /\ TickBoundary =>
           \A j \in 1..Len(proc_list) :
               /\ proc_list[j].remaining_time # 0
               /\ ~unsigned_less(proc_list[j].exec_time, proc_list[j].remaining_time)
    /\ AfterScheduling =>
           \A c \in 1..Len(cpus_state) :
               cpus_state[c] = SLEEP \/ cpus_state[c] \in IdsOf(proc_list)

(***************************************************************************)
(* C12  Malformed timestamp is fatal: a step of the admission that reads   *)
(* a line whose timestamp is not the current tick ends the run in a fatal  *)
(* error, admits no process of that line and prints no record.             *)
(***************************************************************************)
ReadsWrongTimestamp == pc = "read" /\ time' # time

MalformedTimestampFatalStep ==
    ReadsWrongTimestamp =>
        /\ pc' = "abort"
        /\ proc_list' = proc_list
        /\ printed' = printed

MalformedTimestampFatal == [][MalformedTimestampFatalStep]_vars

(***************************************************************************)
(* C13  Unrecognized policy: with a method outside 0..6 the run ends in    *)
(* the fatal error of the default label before any scheduling step (the    *)
(* cpu states are still the initial ones) and before any record is         *)
(* printed; the error is raised in no run with a method in 0..6 and at no  *)
(* later tick.                                                             *)
(***************************************************************************)
UnrecognizedPolicyFatal ==
    /\ method \notin Methods =>
           /\ pc \in {"read", "schedule", "abort"}
           /\ printed = 0 /\ out = <<>>
           /\ cpus_state = [c \in 1..cpu_count |-> InitialCpuState]
    /\ pc = "abort" => (method \notin Methods /\ printed = 0 /\ time = 0)

\* the error was raised in the first tick, after a line with processes was read
UnrecognizedPolicyFatalWitness ==
    /\ pc = "abort"
    /\ method = LastMethod + 1
    /\ proc_list # <<>>

(***************************************************************************)
(* C14  FCFS order: under FCFS the scheduling step leaves proc_list as it  *)
(* is, the list is always the live processes in order of arrival, no       *)
(* process waits while one that arrived after it holds a slot, and a live  *)
(* process that held a slot in the previous tick holds one in this tick.   *)
(***************************************************************************)
FcfsNoReorder == (pc = "schedule" /\ method = 0) => proc_list' = proc_list

FcfsArrivalOrder ==
    method = 0 =>
        /\ IdSeq(proc_list) = arrivalOrder[0]
        /\ AfterScheduling =>
               /\ \A p \in Running, q \in Waiting : ~ArrivedBefore(q, p)
               /\ held \subseteq Range(cpus_state)

FcfsOrder == []FcfsArrivalOrder /\ [][FcfsNoReorder]_vars

\* a process that has executed keeps its slot while a later arrival that
\* needs less time than it has left waits
FcfsOrderWitness ==
    /\ AfterScheduling /\ method = 0
    /\ \E p \in held \cap Running, q \in Waiting :
          /\ ArrivedBefore(p, q)
          /\ Proc(p).remaining_time < Proc(p).exec_time
          /\ Proc(q).exec_time < Proc(p).remaining_time

(***************************************************************************)
(* C15  The sort of the slots does not feed back into scheduling: the      *)
(* ready list of the run is, in every state, the ready list of the         *)
(* reference run that leaves the slots in slot-fill order (round robin is  *)
(* the one policy that reads the slots in order).                          *)
(***************************************************************************)
SortDoesNotFeedBack ==
    KeepsReference(method) => IdSeq(proc_list) = IdSeq(plain.proc_list)

(***************************************************************************)
(* C16  Round robin never silently ignores a missing process: a scheduling *)
(* step of RR that meets, before the first idle slot, a slot id that no    *)
(* process of the ready list has ends the run in a fatal error.            *)
(***************************************************************************)
RrMeetsMissingId ==
    /\ pc = "schedule" /\ method = 3
    /\ \E c \in 1..Len(cpus_state) :
           /\ \A b \in 1..c : cpus_state[b] # SLEEP
           /\ cpus_state[c] \notin IdsOf(proc_list)

RrMissingIdFatalStep == RrMeetsMissingId => pc' \in {"crash", "abort"}

RrMissingIdFatal == [][RrMissingIdFatalStep]_vars

(***************************************************************************)
(* C17  Policies are total: no scheduling step reads the ready list at or  *)
(* beyond its end (the scan of round robin never runs off the list, no run *)
(* ends in the crash of such a read), and a scheduling step on an empty    *)
(* ready list leaves every slot idle.                                      *)
(***************************************************************************)
PoliciesTotal ==
    /\ pc # "crash"
    /\ ~RrMeetsMissingId
    /\ (AfterScheduling /\ proc_list = <<>>) =>
           \A c \in 1..Len(cpus_state) : cpus_state[c] = SLEEP

(***************************************************************************)
(* C18  Canonical slot order: the slot vector of every printed record has  *)
(* length cpu_count, its occupied slots come before its idle slots, and    *)
(* the occupied slots are in strictly ascending order of process id.       *)
(***************************************************************************)
CanonicalSlotOrder ==
    printed > 0 =>
        LET slots == Tail(out)
        IN  /\ Len(slots) = cpu_count
            /\ \A c, d \in 1..Len(slots) :
                   c < d =>
                       /\ slots[c] = SLEEP => slots[d] = SLEEP
                       /\ (slots[c] # SLEEP /\ slots[d] # SLEEP) => slots[c] < slots[d]

\* a record that shows 0 before 1 although the ready list holds 1 before 0
CanonicalSlotOrderWitness ==
    /\ printed > 0 /\ cpu_count = 2
    /\ Tail(out) = <<0, 1>>
    /\ IdSeq(proc_list) = <<1, 0>>

(***************************************************************************)
(* C19  Running-prefix invariant: when a scheduling step starts, the live  *)
(* processes that held a slot in the previous tick are the first k         *)
(* elements of the ready list, k being their number, and exactly k slot    *)
(* ids of the previous tick are ids of processes in the ready list.        *)
(***************************************************************************)
HeldArePrefix ==
    pc = "schedule" =>
        /\ Cardinality(held) <= Len(proc_list)
        /\ {proc_list[j].id : j \in 1..Cardinality(held)} = held

SlotsCountHeld ==
    pc = "schedule" =>
        Cardinality({c \in 1..Len(cpus_state) : cpus_state[c] \in IdsOf(proc_list)})
            = Cardinality(held)

RunningPrefix == HeldArePrefix /\ SlotsCountHeld

(***************************************************************************)
(* C20  Round robin never takes a slot away in the middle of a slice: a    *)
(* live process that held a slot in the previous tick and whose executed   *)
(* time is not a positive multiple of rr_time holds a slot in this tick,   *)
(* whatever has arrived; one that lost its slot has executed a positive    *)
(* multiple of rr_time.                                                    *)
(***************************************************************************)
RrKeepsSlotInSlice ==
    (AfterScheduling /\ method = 3) =>
        /\ \A p \in held : ~SliceDone(Proc(p)) => p \in Running
        /\ \A p \in held \cap Waiting : SliceDone(Proc(p))

\* the one slot stays with a process halfway through its slice of two ticks
\* while a process that arrived meanwhile waits
RrKeepsSlotInSliceWitness ==
    /\ AfterScheduling /\ method = 3 /\ rr_time = 2 /\ cpu_count = 1
    /\ \E p \in held \cap Running, q \in Waiting \ held :
          /\ Proc(p).exec_time - Proc(p).remaining_time = 1
          /\ Proc(q).remaining_time = Proc(q).exec_time

====
